---------------------------- MODULE Spec2Model ----------------------------
(***************************************************************************)
(* Model of pbir-pr-annotate:                                              *)
(*   scripts/build_guid_mapping.py  (Report Tree Walker, Visual Descriptor *)
(*                                   Extractor)                            *)
(*   scripts/build_pr_comment.py    (Change Correlator, ASCII Layout       *)
(*                                   Renderer)                             *)
(*   scripts/post_pr_comment.py     (comment posting command)              *)
(* Each script is a separate process run, so each has its own              *)
(* specification over the shared variable list.                            *)
(***************************************************************************)
EXTENDS Integers, Sequences, FiniteSets, TLC

VARIABLES
  \* ---- Visual Descriptor Extractor, one visual document of the pass
  vobj,        \* the parsed visual document (read_json(...) or {})
  vpc,         \* position in the loop body, lines 165-172
  xywh,        \* result of extract_xywh_from_position
  vexc,        \* exception that ended the visual's processing, or "none"
  vtype,       \* resolved visual type, or NoType
  \* ---- Report Tree Walker, one run of build_guid_mapping.main
  tree,        \* the *.Report directories under the scan root
  listing,     \* the pages directory of the report being collected
  wpc,         \* position in main / collect_pages_for_report
  report_dirs, \* find_report_dirs(root)
  ri,          \* index of the report being collected
  page_dirs,   \* sorted page directories of that report
  pj,          \* index of the page directory being visited
  pobj,        \* the page document read on line 145
  page_entry,  \* the page entry built on lines 150-156
  pages_out,   \* pages collected for the current report
  all_pages,   \* pages of the mapping
  wexc,        \* exception that ended the run, or "none"
  \* ---- Change Correlator, one run of build_pr_comment.main
  pages,       \* mapping["pages"], the index read from the mapping file
  changed,     \* the changed paths, in the order git reports them
  cpc,         \* position in main, lines 209-242
  page_by_path,    \* path -> page
  visuals_by_path, \* path -> (page, visual)
  ci,          \* index of the changed path being correlated
  per_page,    \* page key -> change group
  \* ---- ASCII Layout Renderer, one call of ascii_layout
  visuals_for_page, \* the (idx, visual) pairs
  cols,        \* grid columns
  rows,        \* grid rows
  apc,         \* position in ascii_layout
  max_right,   \* extent on the x axis
  max_bottom,  \* extent on the y axis
  grid,        \* the character grid, grid[row][column]
  vi,          \* index of the visual being drawn
  boxes,       \* per drawn visual: its rectangle and the label cells written
  touched,     \* every grid index the call has used
  out,         \* the returned lines
  aexc,        \* exception that ended the call, or "none"
  \* ---- posting command, runs of post_pr_comment.main on one pull request
  comments,    \* the pull request's comments held by the comment service
  next_id,     \* id the service gives to the next created comment
  ppc,         \* position in main
  env,         \* GITHUB_TOKEN, REPO, PR_NUMBER and the comment file of the run
  final_body,  \* marker + "\n" + body_md
  existing_id, \* id of the marked comment found, or NoId
  requests,    \* the requests issued by the current run, in order
  posted,      \* per successful run: what it did and to which comment
  runs         \* number of runs started

visualVars == <<vobj, vpc, xywh, vexc, vtype>>

walkVars == <<tree, listing, wpc, report_dirs, ri, page_dirs, pj, pobj,
              page_entry, pages_out, all_pages, wexc>>

corrVars == <<pages, changed, cpc, page_by_path, visuals_by_path, ci, per_page>>

asciiVars == <<visuals_for_page, cols, rows, apc, max_right, max_bottom, grid,
               vi, boxes, touched, out, aexc>>

postVars == <<comments, next_id, ppc, env, final_body, existing_id, requests,
              posted, runs>>

vars == <<visualVars, walkVars, corrVars, asciiVars, postVars>>

notVisual == <<walkVars, corrVars, asciiVars, postVars>>
notWalk   == <<visualVars, corrVars, asciiVars, postVars>>
notCorr   == <<visualVars, walkVars, asciiVars, postVars>>
notAscii  == <<visualVars, walkVars, corrVars, postVars>>
notPost   == <<visualVars, walkVars, corrVars, asciiVars>>

(***************************************************************************)
(* JSON / Python values.  A string is a sequence of characters.            *)
(***************************************************************************)
Absent == [t |-> "absent"]                 \* key not in the dict
Null   == [t |-> "null"]                   \* JSON null / None
Num(n) == [t |-> "num", n |-> n]
Str(s) == [t |-> "str", s |-> s]
Obj(f) == [t |-> "obj", f |-> f]           \* f: key -> value, Absent = no key

Returned(v) == [ok |-> TRUE, val |-> v]
Raised(e)   == [ok |-> FALSE, exc |-> e]

\* Python truthiness of a value (`v or default`, `if v`)
Truthy(v) ==
  CASE v.t = "absent" -> FALSE
    [] v.t = "null"   -> FALSE
    [] v.t = "num"    -> v.n # 0
    [] v.t = "str"    -> Len(v.s) > 0
    [] v.t = "obj"    -> \E k \in DOMAIN v.f : v.f[k].t # "absent"

\* dict.get(key, default) on a dict; AttributeError on anything else
DictGet(d, key, default) ==
  IF d.t # "obj" THEN Raised("AttributeError")
  ELSE IF key \in DOMAIN d.f /\ d.f[key].t # "absent" THEN Returned(d.f[key])
  ELSE Returned(default)

\* float(v)
PyFloat(v) ==
  CASE v.t = "num"  -> Returned(v.n)
    [] v.t = "str"  -> Raised("ValueError")      \* non-numeric text
    [] v.t = "null" -> Raised("TypeError")
    [] OTHER        -> Raised("TypeError")

EmptyDict == Obj([k \in {} |-> Absent])

\* str.strip()
RECURSIVE LStrip(_)
LStrip(s) == IF s # <<>> /\ Head(s) = " " THEN LStrip(Tail(s)) ELSE s

RECURSIVE RStrip(_)
RStrip(s) ==
  IF s # <<>> /\ s[Len(s)] = " " THEN RStrip(SubSeq(s, 1, Len(s) - 1)) ELSE s

strip(s) == RStrip(LStrip(s))

(***************************************************************************)
(* extract_xywh_from_position                                              *)
(***************************************************************************)
DefaultX      == 0
DefaultY      == 0
DefaultWidth  == 1
DefaultHeight == 1

PositionOf(doc) ==
  LET got == DictGet(doc, "position", EmptyDict)
  IN  IF ~got.ok THEN got
      ELSE IF Truthy(got.val) THEN got ELSE Returned(EmptyDict)

\* variant: the per-field default is dropped and every absent field reads 0
FieldOfZeroDefault(position, key, default) ==
  LET got == DictGet(position, key, Num(0))
  IN  IF ~got.ok THEN got ELSE PyFloat(got.val)

FieldOf(position, key, default) ==
  LET got == DictGet(position, key, Num(default))
  IN  IF ~got.ok THEN got ELSE PyFloat(got.val)

extract_xywh_from_position(doc) ==
  LET position == PositionOf(doc) IN
  IF ~position.ok THEN position ELSE
  LET x == FieldOf(position.val, "x", DefaultX) IN
  IF ~x.ok THEN x ELSE
  LET y == FieldOf(position.val, "y", DefaultY) IN
  IF ~y.ok THEN y ELSE
  LET width == FieldOf(position.val, "width", DefaultWidth) IN
  IF ~width.ok THEN width ELSE
  LET height == FieldOf(position.val, "height", DefaultHeight) IN
  IF ~height.ok THEN height ELSE
  Returned([x |-> x.val, y |-> y.val, width |-> width.val, height |-> height.val])

(***************************************************************************)
(* extract_visual_type                                                     *)
(***************************************************************************)
\* names bound in the function's frame when line 43 / line 50 run
LocalsAtLine43 == {"vobj", "visual_path", "visual"}
LocalsAtLine50 == {"vobj", "visual_path", "visual", "visualGroup"}

\* one `try:` block: chained .get(), then the isinstance/strip test on `name`
TypeFromShape(doc, shape, field, name, locals) ==
  LET outer == DictGet(doc, shape, EmptyDict) IN
  IF ~outer.ok THEN Raised("AttributeError") ELSE
  LET inner == DictGet(outer.val, field, Null) IN
  IF ~inner.ok THEN Raised("AttributeError") ELSE
  IF name \notin locals THEN Raised("NameError") ELSE
  IF inner.val.t = "str" /\ strip(inner.val.s) # <<>>
  THEN Returned(strip(inner.val.s))
  ELSE Raised("fallthrough")

extract_visual_type(doc, visual_path) ==
  LET first == TypeFromShape(doc, "visual", "visualType", "vt", LocalsAtLine43) IN
  IF first.ok THEN first ELSE
  LET second == TypeFromShape(doc, "visualGroup", "displayName", "vg", LocalsAtLine50) IN
  IF second.ok THEN second ELSE
  [ok |-> FALSE, exc |-> "ValueError", file |-> visual_path]

\* the call on line 171: extract_visual_type(vobj) against a two-parameter def
ExtractVisualTypeArity == 2

call_extract_visual_type(args) ==
  IF Len(args) # ExtractVisualTypeArity
  THEN Raised("TypeError")
  ELSE extract_visual_type(args[1], args[2])

(***************************************************************************)
(* Bounded visual documents                                                *)
(***************************************************************************)
MaxNum == 2
Nums   == {-1} \cup (0..MaxNum)

NoType == <<"?">>
NoRect == [x |-> 0, y |-> 0, width |-> 0, height |-> 0]

FieldVals == {Absent, Null, Str(<<"a">>)} \cup {Num(n) : n \in Nums}

PositionObjs ==
  {Obj([x |-> fx, y |-> fy, width |-> fw, height |-> fh]) :
      fx \in FieldVals, fy \in FieldVals, fw \in FieldVals, fh \in FieldVals}

PositionVals == {Absent, Null, Num(0), Str(<<"a">>)} \cup PositionObjs

TypeStrs == {Absent, Str(<<>>), Str(<<"c">>), Str(<<" ", "c">>)}

VisualShapes == {Absent} \cup {Obj([visualType |-> s]) : s \in TypeStrs}
GroupShapes  == {Absent} \cup {Obj([displayName |-> s]) : s \in {Absent, Str(<<>>), Str(<<"g">>)}}

VisualDocs ==
  {Obj([position |-> p, visual |-> v, visualGroup |-> g]) :
      p \in PositionVals, v \in VisualShapes, g \in GroupShapes}

(***************************************************************************)
(* Strings, paths and their ordering                                       *)
(***************************************************************************)
UpperCase == <<"A", "B", "C", "D", "E", "F", "G", "H", "I", "J", "K", "L", "M",
               "N", "O", "P", "Q", "R", "S", "T", "U", "V", "W", "X", "Y", "Z">>
LowerCase == <<"a", "b", "c", "d", "e", "f", "g", "h", "i", "j", "k", "l", "m",
               "n", "o", "p", "q", "r", "s", "t", "u", "v", "w", "x", "y", "z">>

Letters == {UpperCase[i] : i \in 1..26} \cup {LowerCase[i] : i \in 1..26}

\* code point of a character
CodePoints ==
  [c \in Letters \cup {"."} |->
     IF c = "." THEN 46
     ELSE IF \E i \in 1..26 : UpperCase[i] = c
          THEN 64 + (CHOOSE i \in 1..26 : UpperCase[i] = c)
          ELSE 96 + (CHOOSE i \in 1..26 : LowerCase[i] = c)]

ord(c) == CodePoints[c]

\* str.lower(), character by character
LowerOf ==
  [c \in Letters \cup {"."} |->
     IF \E k \in 1..26 : UpperCase[k] = c
     THEN LowerCase[CHOOSE k \in 1..26 : UpperCase[k] = c]
     ELSE c]

lower(s) == [i \in DOMAIN s |-> LowerOf[s[i]]]

\* str < str
RECURSIVE StrLess(_, _)
StrLess(s, t) ==
  IF s = <<>> THEN t # <<>>
  ELSE IF t = <<>> THEN FALSE
  ELSE IF Head(s) = Head(t) THEN StrLess(Tail(s), Tail(t))
  ELSE ord(Head(s)) < ord(Head(t))

\* Path < Path: the lists of path components are compared
RECURSIVE PathLess(_, _)
PathLess(p, q) ==
  IF p = <<>> THEN q # <<>>
  ELSE IF q = <<>> THEN FALSE
  ELSE IF Head(p) = Head(q) THEN PathLess(Tail(p), Tail(q))
  ELSE StrLess(Head(p), Head(q))

\* sorted(paths)
RECURSIVE SortedPaths(_)
SortedPaths(S) ==
  IF S = {} THEN <<>>
  ELSE LET m == CHOOSE x \in S : \A y \in S \ {x} : PathLess(x, y)
       IN  <<m>> \o SortedPaths(S \ {m})

\* sorted(names) of entries of one directory
RECURSIVE SortedNames(_)
SortedNames(S) ==
  IF S = {} THEN <<>>
  ELSE LET m == CHOOSE x \in S : \A y \in S \ {x} : StrLess(x, y)
       IN  <<m>> \o SortedNames(S \ {m})

DotReport  == <<".", "R", "e", "p", "o", "r", "t">>
Definition == <<"d", "e", "f", "i", "n", "i", "t", "i", "o", "n">>
Pages      == <<"p", "a", "g", "e", "s">>
Visuals    == <<"v", "i", "s", "u", "a", "l", "s">>
PageJson   == <<"p", "a", "g", "e", ".", "j", "s", "o", "n">>
VisualJson == <<"v", "i", "s", "u", "a", "l", ".", "j", "s", "o", "n">>
Bookmarks  == <<"b", "o", "o", "k", "m", "a", "r", "k", "s">>

endswith(s, suffix) ==
  /\ Len(s) >= Len(suffix)
  /\ SubSeq(s, Len(s) - Len(suffix) + 1, Len(s)) = suffix

\* get_report_name
get_report_name(report_dir) ==
  LET name == report_dir[Len(report_dir)]
  IN  IF endswith(name, DotReport)
      THEN SubSeq(name, 1, Len(name) - Len(DotReport))
      ELSE name

\* under_bookmarks
under_bookmarks(path) == \E i \in DOMAIN path : lower(path[i]) = Bookmarks

(***************************************************************************)
(* Bounded file trees                                                      *)
(***************************************************************************)
MaxReports == 2

ParentDirs  == {<<"a">>, <<"b">>}
ReportNames == {<<"A">> \o DotReport, <<"B">> \o DotReport}

\* report directories lie directly under the root or one level below it
ReportPaths == {<<<<"A">> \o DotReport>>}
                 \cup {<<d, n>> : d \in ParentDirs, n \in ReportNames}

Trees == {E \in SUBSET ReportPaths : Cardinality(E) \in 1..MaxReports}

PageDirNames == {<<"p">>, <<"q">>}
BookmarkDir  == <<"B", "o", "o", "k", "m", "a", "r", "k", "s">>

\* what a page directory holds: nothing of it exists ("absent"), page.json
\* only ("plain"), page.json and one visual with visual.json ("visual"),
\* or no page.json ("nojson")
PageDirKinds == {"absent", "plain", "visual", "nojson"}

NoListing ==
  [pages_root |-> FALSE,
   dirs |-> [n \in PageDirNames \cup {BookmarkDir} |-> "absent"]]

\* pages_root.is_dir() and pages_root.iterdir()
Listings ==
  {[pages_root |-> TRUE, dirs |-> f] :
      f \in {g \in [PageDirNames \cup {BookmarkDir} -> PageDirKinds] :
                /\ g[BookmarkDir] \in {"absent", "plain"}
                /\ g[<<"q">>] # "nojson"}}
    \cup {NoListing}

VisualDirsOf(kind) == IF kind = "visual" THEN {<<"v">>} ELSE {}

PageNameVals    == {Absent, Str(<<>>), Str(<<"n">>)}
DisplayNameVals == {Absent, Str(<<>>), Str(<<"D">>)}

\* read_json(page_json): a parsed document, or None when it cannot be read
PageDocs ==
  {Null} \cup {Obj([name |-> n, displayName |-> dn]) :
                  n \in PageNameVals, dn \in DisplayNameVals}

\* page documents met by the walk over whole trees
WalkPageDocs == {Null, Obj([name |-> Str(<<"n">>), displayName |-> Str(<<"D">>)])}

\* visual documents met by the walk
WalkVisualDocs ==
  {Obj([position |-> p, visual |-> Obj([visualType |-> Str(<<"c">>)]),
        visualGroup |-> Absent]) :
      p \in {Absent, Obj([x |-> Null, y |-> Absent, width |-> Absent, height |-> Absent])}}

NoEntry == [id |-> <<>>, name |-> <<>>, report |-> <<>>, path |-> <<>>, visuals |-> <<>>]

(***************************************************************************)
(* find_report_dirs, collect_pages_for_report, main                        *)
(***************************************************************************)
\* variant: the report directories are ordered by their directory name only
find_report_dirs_by_name(t) ==
  LET names == {p[Len(p)] : p \in t}
      RECURSIVE Place(_)
      Place(ns) ==
        IF ns = <<>> THEN <<>>
        ELSE SortedPaths({p \in t : p[Len(p)] = Head(ns)}) \o Place(Tail(ns))
  IN  Place(SortedNames(names))

\* find_report_dirs: sorted(p for p in root.rglob("*.Report") if p.is_dir())
find_report_dirs(t) ==
  SortedPaths({p \in t : endswith(p[Len(p)], DotReport)})

\* `a or b` on values
PyOr(a, b) == IF Truthy(a) THEN a ELSE b

\* `read_json(path) or {}`
OrEmpty(doc) == IF Truthy(doc) THEN doc ELSE EmptyDict

\* lines 147-148
page_id_of(doc, dir_name) ==
  PyOr(DictGet(doc, "name", Null).val, Str(dir_name)).s

page_name_of(doc, dir_name) ==
  PyOr(DictGet(doc, "displayName", Null).val,
       PyOr(Str(dir_name), Str(page_id_of(doc, dir_name)))).s

\* lines 150-156
PageEntry(doc, report_dir, dir_name) ==
  [id      |-> page_id_of(doc, dir_name),
   name    |-> page_name_of(doc, dir_name),
   report  |-> get_report_name(report_dir),
   path    |-> report_dir \o <<Definition, Pages, dir_name, PageJson>>,
   visuals |-> <<>>]

\* lines 165-185 for one visual directory
VisualEntry(doc, visual_path) ==
  LET rect == extract_xywh_from_position(doc) IN
  IF ~rect.ok THEN rect ELSE
  LET type == call_extract_visual_type(<<doc>>) IN
  IF ~type.ok THEN type ELSE
  Returned([path |-> visual_path, visualType |-> type.val,
            x |-> rect.val.x, y |-> rect.val.y,
            width |-> rect.val.width, height |-> rect.val.height])

\* lines 158-185: the visuals loop over the sorted visual directories
RECURSIVE CollectVisuals(_, _, _, _)
CollectVisuals(dirs, docs, page_dir_path, acc) ==
  IF dirs = <<>> THEN Returned(acc)
  ELSE LET visual_json == page_dir_path \o <<Visuals, Head(dirs), VisualJson>>
           entry == VisualEntry(OrEmpty(docs[Head(dirs)]), visual_json)
       IN  IF under_bookmarks(visual_json)
           THEN CollectVisuals(Tail(dirs), docs, page_dir_path, acc)
           ELSE IF ~entry.ok THEN entry
           ELSE CollectVisuals(Tail(dirs), docs, page_dir_path, Append(acc, entry.val))

\* main, line 202: the iterable of the loop
FindReportDirs ==
  /\ wpc = "start"
  /\ report_dirs' = find_report_dirs(tree)
  /\ ri' = 1
  /\ wpc' = "reports"
  /\ UNCHANGED <<tree, listing, page_dirs, pj, pobj, page_entry, pages_out,
                 all_pages, wexc>>
  /\ UNCHANGED notWalk

\* collect_pages_for_report, lines 131-136: no pages directory, return []
NoPagesRoot ==
  /\ wpc = "reports"
  /\ ri <= Len(report_dirs)
  /\ listing' = NoListing
  /\ ri' = ri + 1
  /\ UNCHANGED <<tree, wpc, report_dirs, page_dirs, pj, pobj, page_entry,
                 pages_out, all_pages, wexc>>
  /\ UNCHANGED notWalk

\* collect_pages_for_report, lines 131-140: the page directories are listed
EnterReport ==
  /\ wpc = "reports"
  /\ ri <= Len(report_dirs)
  /\ \E l \in Listings \ {NoListing} :
       /\ listing' = l
       /\ page_dirs' = SortedNames({n \in DOMAIN l.dirs : l.dirs[n] # "absent"})
  /\ pj' = 1
  /\ pages_out' = <<>>
  /\ wpc' = "pages"
  /\ UNCHANGED <<tree, report_dirs, ri, pobj, page_entry, all_pages, wexc>>
  /\ UNCHANGED notWalk

\* lines 141-143: no page.json, or a path under a bookmarks directory
SkipPage ==
  /\ wpc = "pages"
  /\ pj <= Len(page_dirs)
  /\ LET dir_name  == page_dirs[pj]
         page_json == report_dirs[ri] \o <<Definition, Pages, dir_name, PageJson>>
     IN  listing.dirs[dir_name] = "nojson" \/ under_bookmarks(page_json)
  /\ pj' = pj + 1
  /\ UNCHANGED <<tree, listing, wpc, report_dirs, ri, page_dirs, pobj,
                 page_entry, pages_out, all_pages, wexc>>
  /\ UNCHANGED notWalk

\* one iteration of the page loop, lines 145-187
VisitPage ==
  /\ wpc = "pages"
  /\ pj <= Len(page_dirs)
  /\ LET report_dir == report_dirs[ri]
         dir_name   == page_dirs[pj]
         kind       == listing.dirs[dir_name]
         page_dir   == report_dir \o <<Definition, Pages, dir_name>>
         page_json  == page_dir \o <<PageJson>>
     IN  /\ ~(kind = "nojson" \/ under_bookmarks(page_json))
         /\ \E doc \in WalkPageDocs :
            \E vdocs \in [VisualDirsOf(kind) -> WalkVisualDocs] :
              LET entry   == PageEntry(OrEmpty(doc), report_dir, dir_name)
                  visuals == CollectVisuals(SortedNames(VisualDirsOf(kind)),
                                            vdocs, page_dir, <<>>)
              IN  IF visuals.ok
                  THEN /\ pages_out' =
                            Append(pages_out, [entry EXCEPT !.visuals = visuals.val])
                       /\ pj' = pj + 1
                       /\ UNCHANGED <<wpc, wexc>>
                  ELSE /\ wpc' = "raised"
                       /\ wexc' = visuals.exc
                       /\ UNCHANGED <<pages_out, pj>>
  /\ UNCHANGED <<tree, listing, report_dirs, ri, page_dirs, pobj, page_entry,
                 all_pages>>
  /\ UNCHANGED notWalk

\* line 189 and main line 203: all_pages.extend(pages_out)
LeaveReport ==
  /\ wpc = "pages"
  /\ pj > Len(page_dirs)
  /\ all_pages' = all_pages \o pages_out
  /\ ri' = ri + 1
  /\ wpc' = "reports"
  /\ UNCHANGED <<tree, listing, report_dirs, page_dirs, pj, pobj, page_entry,
                 pages_out, wexc>>
  /\ UNCHANGED notWalk

\* main, lines 205-212: the mapping is written
WriteMapping ==
  /\ wpc = "reports"
  /\ ri > Len(report_dirs)
  /\ wpc' = "done"
  /\ UNCHANGED <<tree, listing, report_dirs, ri, page_dirs, pj, pobj,
                 page_entry, pages_out, all_pages, wexc>>
  /\ UNCHANGED notWalk

(***************************************************************************)
(* Lines 145-156 for one page directory: the page document is read and     *)
(* the page entry is built from it                                         *)
(***************************************************************************)
\* line 145
ReadPage ==
  /\ wpc = "page"
  /\ \E doc \in PageDocs : pobj' = OrEmpty(doc)
  /\ wpc' = "read"
  /\ UNCHANGED <<tree, listing, report_dirs, ri, page_dirs, pj, page_entry,
                 pages_out, all_pages, wexc>>
  /\ UNCHANGED notWalk

\* lines 147-156
BuildPageEntry ==
  /\ wpc = "read"
  /\ page_entry' = PageEntry(pobj, report_dirs[ri], page_dirs[pj])
  /\ wpc' = "entry"
  /\ UNCHANGED <<tree, listing, report_dirs, ri, page_dirs, pj, pobj,
                 pages_out, all_pages, wexc>>
  /\ UNCHANGED notWalk

(***************************************************************************)
(* The loop body of collect_pages_for_report for one visual, lines 165-172 *)
(***************************************************************************)
\* line 170
CallExtractXYWH ==
  /\ vpc = "read"
  /\ LET r == extract_xywh_from_position(vobj) IN
     IF r.ok
     THEN /\ xywh' = r.val
          /\ vpc' = "xywh"
          /\ vexc' = "none"
     ELSE /\ xywh' = xywh
          /\ vpc' = "raised_xywh"
          /\ vexc' = r.exc
  /\ UNCHANGED <<vobj, vtype>>
  /\ UNCHANGED notVisual

\* line 171
CallExtractVisualType ==
  /\ vpc = "xywh"
  /\ LET r == call_extract_visual_type(<<vobj>>) IN
     IF r.ok
     THEN /\ vtype' = r.val
          /\ vpc' = "typed"
          /\ vexc' = "none"
     ELSE /\ vtype' = vtype
          /\ vpc' = "raised_type"
          /\ vexc' = r.exc
  /\ UNCHANGED <<vobj, xywh>>
  /\ UNCHANGED notVisual

(***************************************************************************)
(* Change Correlator: build_pr_comment.main, lines 203-242                 *)
(* Strings of the index are sequences of text pieces; a page or a visual   *)
(* is identified by its position in the index.                             *)
(***************************************************************************)
MaxPages          == 2
MaxVisualsPerPage == 1
MaxChanged        == 3

\* str.replace("\\", "/")
normalize(path) == [i \in DOMAIN path |-> IF path[i] = "\\" THEN "/" ELSE path[i]]

PageDirsOfIndex   == <<"p1", "p2", "p3", "p4">>
VisualDirsOfIndex == <<"v1", "v2", "v3">>

PagePathOf(k)      == <<PageDirsOfIndex[k], "/", "page.json">>
VisualPathOf(k, m) == <<PageDirsOfIndex[k], "/", VisualDirsOfIndex[m], "/", "visual.json">>
UnrelatedPath      == <<"unrelated", "/", "file.txt">>

IndexIds     == {<<"i1">>, <<"i2">>}
IndexReports == {<<"R1">>, <<"R2">>}

IndexPage(k, id, report, nvis) ==
  [id      |-> id,
   name    |-> <<"N">>,
   report  |-> report,
   path    |-> PagePathOf(k),
   visuals |-> [m \in 1..nvis |-> [path |-> VisualPathOf(k, m)]]]

Indexes ==
  UNION {
    {[k \in 1..n |-> IndexPage(k, ids[k], reps[k], nvs[k])] :
        ids \in [1..n -> IndexIds], reps \in [1..n -> IndexReports],
        nvs \in [1..n -> 0..MaxVisualsPerPage]} :
    n \in 1..MaxPages}

PathsOf(index) ==
  {index[k].path : k \in DOMAIN index}
    \cup UNION {{index[k].visuals[m].path : m \in DOMAIN index[k].visuals} :
                  k \in DOMAIN index}
    \cup {UnrelatedPath}

\* sequences of distinct paths, as `git diff --name-only` lists them
RECURSIVE DistinctSeqs(_, _)
DistinctSeqs(S, n) ==
  IF n = 0 THEN {<<>>}
  ELSE {<<>>} \cup
       UNION {{<<p>> \o rest : rest \in DistinctSeqs(S \ {p}, n - 1)} : p \in S}

\* page_key
page_key(page) ==
  IF page.id # <<>> THEN page.id ELSE page.report \o <<"/">> \o page.name

\* lines 212-215: later pages overwrite earlier ones at the same path
PageByPath(index) ==
  LET keys == {normalize(index[k].path) : k \in DOMAIN index}
  IN  [p \in keys |->
         CHOOSE k \in DOMAIN index :
           /\ normalize(index[k].path) = p
           /\ \A k2 \in DOMAIN index : normalize(index[k2].path) = p => k2 <= k]

\* lines 216-219
VisualsByPath(index) ==
  LET slots == {<<k, m>> \in (DOMAIN index) \X (1..MaxVisualsPerPage) :
                   m \in DOMAIN index[k].visuals}
      keys  == {normalize(index[s[1]].visuals[s[2]].path) : s \in slots}
      Later(s, t) == s[1] < t[1] \/ (s[1] = t[1] /\ s[2] <= t[2])
  IN  [p \in keys |->
         CHOOSE s \in slots :
           /\ normalize(index[s[1]].visuals[s[2]].path) = p
           /\ \A t \in slots :
                normalize(index[t[1]].visuals[t[2]].path) = p => Later(t, s)]

\* dict.setdefault(key, default)
setdefault(d, key, default) ==
  IF key \in DOMAIN d THEN d
  ELSE [k \in DOMAIN d \cup {key} |-> IF k = key THEN default ELSE d[k]]

NoGroups == [k \in {} |-> 0]

\* lines 209-224
BuildLookups ==
  /\ cpc = "mapping"
  /\ page_by_path' = PageByPath(pages)
  /\ visuals_by_path' = VisualsByPath(pages)
  /\ per_page' = NoGroups
  /\ ci' = 1
  /\ cpc' = "correlate"
  /\ UNCHANGED <<pages, changed>>
  /\ UNCHANGED notCorr

\* lines 227-233
MarkPage(groups, path) ==
  IF path \in DOMAIN page_by_path
  THEN LET page == page_by_path[path]
           key  == page_key(pages[page])
           g    == setdefault(groups, key,
                              [page |-> page, page_changed |-> FALSE,
                               page_path |-> path, visuals |-> <<>>])
       IN  [g EXCEPT ![key].page_changed = TRUE]
  ELSE groups

\* lines 235-242
AddVisual(groups, path) ==
  IF path \in DOMAIN visuals_by_path
  THEN LET page == visuals_by_path[path][1]
           vis  == visuals_by_path[path]
           key  == page_key(pages[page])
           g    == setdefault(groups, key,
                              [page |-> page, page_changed |-> FALSE,
                               page_path |-> pages[page].path, visuals |-> <<>>])
       IN  [g EXCEPT ![key].visuals = Append(@, <<path, vis>>)]
  ELSE groups

\* one iteration of `for path in changed`, lines 226-242
Correlate ==
  /\ cpc = "correlate"
  /\ ci <= Len(changed)
  /\ per_page' = AddVisual(MarkPage(per_page, normalize(changed[ci])),
                           normalize(changed[ci]))
  /\ ci' = ci + 1
  /\ UNCHANGED <<pages, changed, cpc, page_by_path, visuals_by_path>>
  /\ UNCHANGED notCorr

\* the loop is exhausted; per_page is handed to the report grouping, line 245
Correlated ==
  /\ cpc = "correlate"
  /\ ci > Len(changed)
  /\ cpc' = "grouped"
  /\ UNCHANGED <<pages, changed, page_by_path, visuals_by_path, ci, per_page>>
  /\ UNCHANGED notCorr

(***************************************************************************)
(* ASCII Layout Renderer: build_pr_comment.ascii_layout                    *)
(* Coordinates are integers; x * (cols / max_right) is computed exactly.   *)
(***************************************************************************)
Max(a, b) == IF a >= b THEN a ELSE b
Min(a, b) == IF a <= b THEN a ELSE b

\* round(n / d) for d > 0: to the nearest integer, ties to the even one
round(n, d) ==
  LET q == n \div d
      r == n % d
  IN  IF 2 * r < d THEN q
      ELSE IF 2 * r > d THEN q + 1
      ELSE IF q % 2 = 0 THEN q ELSE q + 1

\* int(round(v * (size / extent))), lines 104-105 and 112-115
Scale(v, size, extent) == round(v * size, extent)

\* variant: the upper clamp bound is left out
ClampNoUpper(hi, v) == Max(0, v)

\* variant: the upper clamp bound is one cell short
ClampShort(hi, v) == Max(0, Min(hi - 1, v))

\* max(0, min(hi, v)), lines 118-121
Clamp(hi, v) == Max(0, Min(hi, v))

\* lines 88-102
RightOf(v)  == v.x + v.width
BottomOf(v) == v.y + v.height

RECURSIVE MaxRight(_, _)
MaxRight(vs, acc) ==
  IF vs = <<>> THEN acc ELSE MaxRight(Tail(vs), Max(acc, RightOf(Head(vs)[2])))

RECURSIVE MaxBottom(_, _)
MaxBottom(vs, acc) ==
  IF vs = <<>> THEN acc ELSE MaxBottom(Tail(vs), Max(acc, BottomOf(Head(vs)[2])))

Extents(vs) ==
  LET mr == MaxRight(vs, 0)
      mb == MaxBottom(vs, 0)
  IN  IF mr <= 0 \/ mb <= 0 THEN <<1, 1>> ELSE <<mr, mb>>

\* lines 112-127
Box(v, ncols, nrows, mr, mb) ==
  LET left    == Clamp(ncols - 1, Scale(v.x, ncols, mr))
      top     == Clamp(nrows - 1, Scale(v.y, nrows, mb))
      right0  == Clamp(ncols - 1, Scale(v.x + v.width, ncols, mr))
      bottom0 == Clamp(nrows - 1, Scale(v.y + v.height, nrows, mb))
      right   == IF right0 <= left THEN Min(ncols - 1, left + 1) ELSE right0
      bottom  == IF bottom0 <= top THEN Min(nrows - 1, top + 1) ELSE bottom0
  IN  [left |-> left, top |-> top, right |-> right, bottom |-> bottom]

\* str(idx) for idx >= 1
RECURSIVE str(_)
str(n) ==
  LET digit == <<"0", "1", "2", "3", "4", "5", "6", "7", "8", "9">>[(n % 10) + 1]
  IN  IF n < 10 THEN <<digit>> ELSE Append(str(n \div 10), digit)

\* range(a, b) as a sequence
Range(a, b) == [i \in 1..Max(0, b - a) |-> a + i - 1]

\* lines 130-141: the grid assignments of the outline, in program order
OutlineWrites(b) ==
  LET corners == << <<b.top, b.left, "+">>, <<b.top, b.right, "+">>,
                    <<b.bottom, b.left, "+">>, <<b.bottom, b.right, "+">> >>
      cs == Range(b.left + 1, b.right)
      rs == Range(b.top + 1, b.bottom)
      horizontal == [i \in 1..(2 * Len(cs)) |->
                       IF i % 2 = 1 THEN <<b.top, cs[(i + 1) \div 2], "-">>
                                    ELSE <<b.bottom, cs[i \div 2], "-">>]
      vertical   == [i \in 1..(2 * Len(rs)) |->
                       IF i % 2 = 1 THEN <<rs[(i + 1) \div 2], b.left, "|">>
                                    ELSE <<rs[i \div 2], b.right, "|">>]
  IN  corners \o horizontal \o vertical

\* lines 146-153
LabelOrigin(b, label) ==
  LET interior_width  == Max(1, b.right - b.left - 1)
      interior_height == Max(1, b.bottom - b.top - 1)
      center_row0 == b.top + 1 + (interior_height \div 2)
      center_col0 == b.left + 1 + ((interior_width - Len(label)) \div 2)
      center_row  == Max(b.top + 1, Min(b.bottom - 1, center_row0))
      center_col  == Max(b.left + 1, Min(b.right - Len(label), center_col0))
  IN  <<center_row, center_col>>

\* lines 155-158: the label characters that pass the bounds test
LabelWrites(b, label, ncols, nrows) ==
  LET o == LabelOrigin(b, label)
      InGrid(j) == 0 <= o[1] /\ o[1] < nrows /\ 0 <= o[2] + j - 1 /\ o[2] + j - 1 < ncols
  IN  SelectSeq([j \in 1..Len(label) |-> <<o[1], o[2] + j - 1, label[j], InGrid(j)>>],
                LAMBDA w : w[4])

\* list indexing: an index outside -len..len-1 raises IndexError
IndexOK(i, len) == -len <= i /\ i < len
Wrap(i, len)    == IF i < 0 THEN i + len ELSE i

\* the writes up to and including the first one that raises
RECURSIVE Executed(_, _, _)
Executed(ws, ncols, nrows) ==
  IF ws = <<>> THEN <<>>
  ELSE IF IndexOK(Head(ws)[1], nrows) /\ IndexOK(Head(ws)[2], ncols)
       THEN <<Head(ws)>> \o Executed(Tail(ws), ncols, nrows)
       ELSE <<Head(ws)>>

Raises(ws, ncols, nrows) ==
  \E i \in DOMAIN ws : ~(IndexOK(ws[i][1], nrows) /\ IndexOK(ws[i][2], ncols))

\* the grid after the writes, the last write to a cell winning
Written(g, ws, ncols, nrows) ==
  [r \in 0..(nrows - 1) |-> [c \in 0..(ncols - 1) |->
     LET hits == {i \in DOMAIN ws :
                    /\ IndexOK(ws[i][1], nrows) /\ IndexOK(ws[i][2], ncols)
                    /\ Wrap(ws[i][1], nrows) = r /\ Wrap(ws[i][2], ncols) = c}
     IN  IF hits = {} THEN g[r][c]
         ELSE ws[CHOOSE i \in hits : \A k \in hits : k <= i][3]]]

\* lines 160-163
Lines(g, ncols, nrows) ==
  LET border == <<"+">> \o [i \in 1..ncols |-> "-"] \o <<"+">>
      body   == [r \in 1..nrows |->
                   <<"|">> \o [c \in 1..ncols |-> g[r - 1][c - 1]] \o <<"|">>]
  IN  <<border>> \o body \o <<border>>

(***************************************************************************)
(* Bounded inputs of the renderer                                          *)
(***************************************************************************)
MaxVisuals == 10
MaxCols    == 4
MaxRows    == 2
MaxPos     == 2
MaxSize    == 2
MaxExtent  == 8

DefaultCols == 60
DefaultRows == 16

Rects ==
  {[x |-> x, y |-> y, width |-> w, height |-> h] :
      x \in {-1} \cup (0..MaxPos), y \in 0..1,
      w \in {-1} \cup (0..MaxSize), h \in 0..MaxSize}

BaseRects ==
  {[x |-> x, y |-> 0, width |-> w, height |-> h] :
      x \in {0, MaxPos}, w \in {1, MaxSize}, h \in {1, MaxSize}}

\* build_pr_comment.main lines 312-323: idx is the 1-based list position
Numbered(n, a, b) == [i \in 1..n |-> <<i, IF i = n THEN b ELSE a>>]

VisualLists ==
  {<<>>} \cup {Numbered(n, a, b) :
                  n \in {1, 2, MaxVisuals}, a \in BaseRects, b \in Rects}

FullExtentLists ==
  {<<<<1, [x |-> 0, y |-> 0, width |-> w, height |-> h]>>>> :
      w \in 1..MaxExtent, h \in 1..MaxExtent}

EmptyGrid(ncols, nrows) == [r \in 0..(nrows - 1) |-> [c \in 0..(ncols - 1) |-> " "]]

\* lines 84-85
ReturnEmpty ==
  /\ apc = "called"
  /\ visuals_for_page = <<>>
  /\ out' = <<>>
  /\ apc' = "returned"
  /\ UNCHANGED <<visuals_for_page, cols, rows, max_right, max_bottom, grid, vi,
                 boxes, touched, aexc>>
  /\ UNCHANGED notAscii

\* lines 87-108
CollectExtents ==
  /\ apc = "called"
  /\ visuals_for_page # <<>>
  /\ max_right' = Extents(visuals_for_page)[1]
  /\ max_bottom' = Extents(visuals_for_page)[2]
  /\ grid' = EmptyGrid(cols, rows)
  /\ vi' = 1
  /\ apc' = "drawing"
  /\ UNCHANGED <<visuals_for_page, cols, rows, boxes, touched, out, aexc>>
  /\ UNCHANGED notAscii

\* one iteration of the drawing loop, lines 110-158
DrawVisual ==
  /\ apc = "drawing"
  /\ vi <= Len(visuals_for_page)
  /\ LET idx    == visuals_for_page[vi][1]
         b      == Box(visuals_for_page[vi][2], cols, rows, max_right, max_bottom)
         label  == str(idx)
         ows    == OutlineWrites(b)
         lws    == LabelWrites(b, label, cols, rows)
         ws     == IF Raises(ows, cols, rows) THEN Executed(ows, cols, rows)
                   ELSE ows \o lws
     IN  /\ grid' = Written(grid, ws, cols, rows)
         /\ touched' = touched \cup {<<ws[i][1], ws[i][2]>> : i \in DOMAIN ws}
         /\ IF Raises(ows, cols, rows)
            THEN /\ apc' = "raised"
                 /\ aexc' = "IndexError"
                 /\ UNCHANGED <<vi, boxes>>
            ELSE /\ boxes' = Append(boxes,
                        [idx |-> idx, left |-> b.left, top |-> b.top,
                         right |-> b.right, bottom |-> b.bottom,
                         label |-> {<<lws[i][1], lws[i][2]>> : i \in DOMAIN lws}])
                 /\ vi' = vi + 1
                 /\ UNCHANGED <<apc, aexc>>
  /\ UNCHANGED <<visuals_for_page, cols, rows, max_right, max_bottom, out>>
  /\ UNCHANGED notAscii

\* lines 160-163
ReturnLines ==
  /\ apc = "drawing"
  /\ vi > Len(visuals_for_page)
  /\ out' = Lines(grid, cols, rows)
  /\ apc' = "returned"
  /\ UNCHANGED <<visuals_for_page, cols, rows, max_right, max_bottom, grid, vi,
                 boxes, touched, aexc>>
  /\ UNCHANGED notAscii

(***************************************************************************)
(* Posting command: post_pr_comment.main                                   *)
(* A text is a sequence of pieces; the marker is one piece.                *)
(***************************************************************************)
DEFAULT_MARKER == "<!-- pbir-layout-summary -->"

MaxRuns   == 3
MaxOthers == 2

NoId == 0

\* `marker in body`
Contains(body, marker) == \E i \in DOMAIN body : body[i] = marker

\* line 48
FinalBody(marker, body_md) == <<marker, "\n">> \o body_md

\* variant: the scan never recognises a marked comment
FindExistingNever(listed, marker) == NoId

\* lines 65-69: id of the first listed comment whose body holds the marker
FindExisting(listed, marker) ==
  LET hits == {i \in DOMAIN listed : Contains(listed[i].body, marker)}
  IN  IF hits = {} THEN NoId
      ELSE listed[CHOOSE i \in hits : \A k \in hits : i <= k].id

\* environment variables are unset (None), empty or set
EnvVals == {"unset", "empty", "set"}

\* the comment file: missing, or its content
MissingFile == [exists |-> FALSE, text |-> <<>>]

FileVals ==
  {MissingFile} \cup
  {[exists |-> TRUE, text |-> t] :
      t \in {<<>>, <<" ">>, <<"summary">>, <<" ", "summary", " ">>}}

Envs == [token : EnvVals, repo : EnvVals, pr_number : EnvVals, file : FileVals]

NoEnv == [token |-> "unset", repo |-> "unset", pr_number |-> "unset", file |-> MissingFile]

\* `if not value`
Unset(v) == v \in {"unset", "empty"}

\* variant: the comment file is not looked at before the requests
ConfigErrorEnvOnly(e) ==
  IF Unset(e.token) THEN "GITHUB_TOKEN not set"
  ELSE IF Unset(e.repo) THEN "REPO not set (expected owner/repo)"
  ELSE IF Unset(e.pr_number) THEN "PR_NUMBER not set"
  ELSE "none"

\* lines 34-46: the message die() is called with, or "none"
ConfigError(e) ==
  IF Unset(e.token) THEN "GITHUB_TOKEN not set"
  ELSE IF Unset(e.repo) THEN "REPO not set (expected owner/repo)"
  ELSE IF Unset(e.pr_number) THEN "PR_NUMBER not set"
  ELSE IF ~e.file.exists THEN "Comment file not found"
  ELSE IF strip(e.file.text) = <<>> THEN "Comment file is empty"
  ELSE "none"

OkStatus == {200, 201}

\* one entry of the log of calls made to the comment service
Request(method, status) == [method |-> method, status |-> status]

\* a run of the command starts, lines 17-32
StartRun ==
  /\ ppc \in {"idle", "died", "posted"}
  /\ runs < MaxRuns
  /\ env' \in Envs
  /\ runs' = runs + 1
  /\ ppc' = "started"
  /\ requests' = <<>>
  /\ existing_id' = NoId
  /\ final_body' = <<>>
  /\ UNCHANGED <<comments, next_id, posted>>
  /\ UNCHANGED notPost

\* lines 34-46: a configuration error ends the run
ConfigDie ==
  /\ ppc = "started"
  /\ ConfigError(env) # "none"
  /\ ppc' = "died"
  /\ UNCHANGED <<comments, next_id, env, final_body, existing_id, requests,
                 posted, runs>>
  /\ UNCHANGED notPost

\* lines 44-56
Compose ==
  /\ ppc = "started"
  /\ ConfigError(env) = "none"
  /\ final_body' = FinalBody(DEFAULT_MARKER, strip(env.file.text))
  /\ ppc' = "composed"
  /\ UNCHANGED <<comments, next_id, env, existing_id, requests, posted, runs>>
  /\ UNCHANGED notPost

\* lines 59-61: the list request is answered with anything but 200
ListFails ==
  /\ ppc = "composed"
  /\ \E status \in {201, 403} :
       requests' = Append(requests, Request("GET", status))
  /\ ppc' = "died"
  /\ UNCHANGED <<comments, next_id, env, final_body, existing_id, posted, runs>>
  /\ UNCHANGED notPost

\* lines 59-69: the comments are listed and scanned for the marker
ListComments ==
  /\ ppc = "composed"
  /\ requests' = Append(requests, Request("GET", 200))
  /\ existing_id' = FindExisting(comments, DEFAULT_MARKER)
  /\ ppc' = "listed"
  /\ UNCHANGED <<comments, next_id, env, final_body, posted, runs>>
  /\ UNCHANGED notPost

\* lines 71-77 and 84
UpdateComment ==
  /\ ppc = "listed"
  /\ existing_id # NoId
  /\ \E status \in {200, 403} :
       /\ requests' = Append(requests, Request("PATCH", status))
       /\ IF status \in OkStatus
          THEN /\ comments' = [i \in DOMAIN comments |->
                                 IF comments[i].id = existing_id
                                 THEN [comments[i] EXCEPT !.body = final_body]
                                 ELSE comments[i]]
               /\ posted' = Append(posted, [did |-> "update", id |-> existing_id])
               /\ ppc' = "posted"
          ELSE /\ ppc' = "died"
               /\ UNCHANGED <<comments, posted>>
  /\ UNCHANGED <<next_id, env, final_body, existing_id, runs>>
  /\ UNCHANGED notPost

\* lines 78-84
CreateComment ==
  /\ ppc = "listed"
  /\ existing_id = NoId
  /\ \E status \in {201, 403} :
       /\ requests' = Append(requests, Request("POST", status))
       /\ IF status \in OkStatus
          THEN /\ comments' = Append(comments, [id |-> next_id, body |-> final_body])
               /\ next_id' = next_id + 1
               /\ posted' = Append(posted, [did |-> "create", id |-> next_id])
               /\ ppc' = "posted"
          ELSE /\ ppc' = "died"
               /\ UNCHANGED <<comments, next_id, posted>>
  /\ UNCHANGED <<env, final_body, existing_id, runs>>
  /\ UNCHANGED notPost

\* somebody else comments on the pull request between two runs
OtherComment ==
  /\ ppc \in {"idle", "died", "posted"}
  /\ Cardinality({i \in DOMAIN comments : ~Contains(comments[i].body, DEFAULT_MARKER)})
       < MaxOthers
  /\ comments' = Append(comments, [id |-> next_id, body |-> <<"lgtm">>])
  /\ next_id' = next_id + 1
  /\ UNCHANGED <<ppc, env, final_body, existing_id, requests, posted, runs>>
  /\ UNCHANGED notPost

(***************************************************************************)
(* Specifications, one per process run.  The variables of the components   *)
(* that are not running keep their idle values.                            *)
(***************************************************************************)
\* the visual loop body of the indexing pass, for one visual document
SpecVisualInit ==
  /\ vobj \in VisualDocs
  /\ vpc = "read"
  /\ xywh = NoRect
  /\ vexc = "none"
  /\ vtype = NoType
  /\ tree = {}
  /\ listing = NoListing
  /\ wpc = "idle"
  /\ report_dirs = <<>>
  /\ ri = 0
  /\ page_dirs = <<>>
  /\ pj = 0
  /\ pobj = EmptyDict
  /\ page_entry = NoEntry
  /\ pages_out = <<>>
  /\ all_pages = <<>>
  /\ wexc = "none"
  /\ pages = <<>>
  /\ changed = <<>>
  /\ cpc = "idle"
  /\ page_by_path = NoGroups
  /\ visuals_by_path = NoGroups
  /\ ci = 0
  /\ per_page = NoGroups
  /\ visuals_for_page = <<>>
  /\ cols = 0
  /\ rows = 0
  /\ apc = "idle"
  /\ max_right = 0
  /\ max_bottom = 0
  /\ grid = <<>>
  /\ vi = 0
  /\ boxes = <<>>
  /\ touched = {}
  /\ out = <<>>
  /\ aexc = "none"
  /\ comments = <<>>
  /\ next_id = 1
  /\ ppc = "off"
  /\ env = NoEnv
  /\ final_body = <<>>
  /\ existing_id = NoId
  /\ requests = <<>>
  /\ posted = <<>>
  /\ runs = 0

VisualNext == CallExtractXYWH \/ CallExtractVisualType

SpecVisual == SpecVisualInit /\ [][VisualNext]_vars

\* one run of the indexing command
SpecWalkInit ==
  /\ tree \in Trees
  /\ listing = NoListing
  /\ wpc = "start"
  /\ report_dirs = <<>>
  /\ ri = 0
  /\ page_dirs = <<>>
  /\ pj = 0
  /\ pobj = EmptyDict
  /\ page_entry = NoEntry
  /\ pages_out = <<>>
  /\ all_pages = <<>>
  /\ wexc = "none"
  /\ vobj = EmptyDict
  /\ vpc = "idle"
  /\ xywh = NoRect
  /\ vexc = "none"
  /\ vtype = NoType
  /\ pages = <<>>
  /\ changed = <<>>
  /\ cpc = "idle"
  /\ page_by_path = NoGroups
  /\ visuals_by_path = NoGroups
  /\ ci = 0
  /\ per_page = NoGroups
  /\ visuals_for_page = <<>>
  /\ cols = 0
  /\ rows = 0
  /\ apc = "idle"
  /\ max_right = 0
  /\ max_bottom = 0
  /\ grid = <<>>
  /\ vi = 0
  /\ boxes = <<>>
  /\ touched = {}
  /\ out = <<>>
  /\ aexc = "none"
  /\ comments = <<>>
  /\ next_id = 1
  /\ ppc = "off"
  /\ env = NoEnv
  /\ final_body = <<>>
  /\ existing_id = NoId
  /\ requests = <<>>
  /\ posted = <<>>
  /\ runs = 0

WalkNext ==
  \/ FindReportDirs
  \/ NoPagesRoot
  \/ EnterReport
  \/ SkipPage
  \/ VisitPage
  \/ LeaveReport
  \/ WriteMapping

SpecWalk == SpecWalkInit /\ [][WalkNext]_vars

\* the page loop body of the indexing pass, for one page directory
SpecPageInit ==
  /\ tree \in {{r} : r \in ReportPaths}
  /\ listing \in Listings \ {NoListing}
  /\ wpc = "page"
  /\ report_dirs = find_report_dirs(tree)
  /\ ri = 1
  /\ page_dirs = SortedNames({n \in DOMAIN listing.dirs : listing.dirs[n] # "absent"})
  /\ pj \in {k \in DOMAIN page_dirs :
               /\ listing.dirs[page_dirs[k]] # "nojson"
               /\ ~under_bookmarks(report_dirs[ri] \o
                                     <<Definition, Pages, page_dirs[k], PageJson>>)}
  /\ pobj = EmptyDict
  /\ page_entry = NoEntry
  /\ pages_out = <<>>
  /\ all_pages = <<>>
  /\ wexc = "none"
  /\ vobj = EmptyDict
  /\ vpc = "idle"
  /\ xywh = NoRect
  /\ vexc = "none"
  /\ vtype = NoType
  /\ pages = <<>>
  /\ changed = <<>>
  /\ cpc = "idle"
  /\ page_by_path = NoGroups
  /\ visuals_by_path = NoGroups
  /\ ci = 0
  /\ per_page = NoGroups
  /\ visuals_for_page = <<>>
  /\ cols = 0
  /\ rows = 0
  /\ apc = "idle"
  /\ max_right = 0
  /\ max_bottom = 0
  /\ grid = <<>>
  /\ vi = 0
  /\ boxes = <<>>
  /\ touched = {}
  /\ out = <<>>
  /\ aexc = "none"
  /\ comments = <<>>
  /\ next_id = 1
  /\ ppc = "off"
  /\ env = NoEnv
  /\ final_body = <<>>
  /\ existing_id = NoId
  /\ requests = <<>>
  /\ posted = <<>>
  /\ runs = 0

PageNext == ReadPage \/ BuildPageEntry

SpecPage == SpecPageInit /\ [][PageNext]_vars

\* one run of the Change Correlator
SpecCorrelateInit ==
  /\ pages \in Indexes
  /\ changed \in DistinctSeqs(PathsOf(pages), MaxChanged)
  /\ cpc = "mapping"
  /\ page_by_path = NoGroups
  /\ visuals_by_path = NoGroups
  /\ ci = 0
  /\ per_page = NoGroups
  /\ vobj = EmptyDict
  /\ vpc = "idle"
  /\ xywh = NoRect
  /\ vexc = "none"
  /\ vtype = NoType
  /\ tree = {}
  /\ listing = NoListing
  /\ wpc = "idle"
  /\ report_dirs = <<>>
  /\ ri = 0
  /\ page_dirs = <<>>
  /\ pj = 0
  /\ pobj = EmptyDict
  /\ page_entry = NoEntry
  /\ pages_out = <<>>
  /\ all_pages = <<>>
  /\ wexc = "none"
  /\ visuals_for_page = <<>>
  /\ cols = 0
  /\ rows = 0
  /\ apc = "idle"
  /\ max_right = 0
  /\ max_bottom = 0
  /\ grid = <<>>
  /\ vi = 0
  /\ boxes = <<>>
  /\ touched = {}
  /\ out = <<>>
  /\ aexc = "none"
  /\ comments = <<>>
  /\ next_id = 1
  /\ ppc = "off"
  /\ env = NoEnv
  /\ final_body = <<>>
  /\ existing_id = NoId
  /\ requests = <<>>
  /\ posted = <<>>
  /\ runs = 0

CorrNext == BuildLookups \/ Correlate \/ Correlated

SpecCorrelate == SpecCorrelateInit /\ [][CorrNext]_vars

\* one call of ascii_layout on a small grid
SpecAsciiInit ==
  /\ visuals_for_page \in VisualLists
  /\ cols \in 1..MaxCols
  /\ rows \in 1..MaxRows
  /\ apc = "called"
  /\ max_right = 0
  /\ max_bottom = 0
  /\ grid = <<>>
  /\ vi = 0
  /\ boxes = <<>>
  /\ touched = {}
  /\ out = <<>>
  /\ aexc = "none"
  /\ vobj = EmptyDict
  /\ vpc = "idle"
  /\ xywh = NoRect
  /\ vexc = "none"
  /\ vtype = NoType
  /\ tree = {}
  /\ listing = NoListing
  /\ wpc = "idle"
  /\ report_dirs = <<>>
  /\ ri = 0
  /\ page_dirs = <<>>
  /\ pj = 0
  /\ pobj = EmptyDict
  /\ page_entry = NoEntry
  /\ pages_out = <<>>
  /\ all_pages = <<>>
  /\ wexc = "none"
  /\ pages = <<>>
  /\ changed = <<>>
  /\ cpc = "idle"
  /\ page_by_path = NoGroups
  /\ visuals_by_path = NoGroups
  /\ ci = 0
  /\ per_page = NoGroups
  /\ comments = <<>>
  /\ next_id = 1
  /\ ppc = "off"
  /\ env = NoEnv
  /\ final_body = <<>>
  /\ existing_id = NoId
  /\ requests = <<>>
  /\ posted = <<>>
  /\ runs = 0

AsciiNext == ReturnEmpty \/ CollectExtents \/ DrawVisual \/ ReturnLines

SpecAscii == SpecAsciiInit /\ [][AsciiNext]_vars

\* one call of ascii_layout on the default grid, one full-extent visual
SpecAsciiDefaultInit ==
  /\ visuals_for_page \in FullExtentLists
  /\ cols = DefaultCols
  /\ rows = DefaultRows
  /\ apc = "called"
  /\ max_right = 0
  /\ max_bottom = 0
  /\ grid = <<>>
  /\ vi = 0
  /\ boxes = <<>>
  /\ touched = {}
  /\ out = <<>>
  /\ aexc = "none"
  /\ vobj = EmptyDict
  /\ vpc = "idle"
  /\ xywh = NoRect
  /\ vexc = "none"
  /\ vtype = NoType
  /\ tree = {}
  /\ listing = NoListing
  /\ wpc = "idle"
  /\ report_dirs = <<>>
  /\ ri = 0
  /\ page_dirs = <<>>
  /\ pj = 0
  /\ pobj = EmptyDict
  /\ page_entry = NoEntry
  /\ pages_out = <<>>
  /\ all_pages = <<>>
  /\ wexc = "none"
  /\ pages = <<>>
  /\ changed = <<>>
  /\ cpc = "idle"
  /\ page_by_path = NoGroups
  /\ visuals_by_path = NoGroups
  /\ ci = 0
  /\ per_page = NoGroups
  /\ comments = <<>>
  /\ next_id = 1
  /\ ppc = "off"
  /\ env = NoEnv
  /\ final_body = <<>>
  /\ existing_id = NoId
  /\ requests = <<>>
  /\ posted = <<>>
  /\ runs = 0

AsciiDefaultNext == CollectExtents \/ DrawVisual \/ ReturnLines

SpecAsciiDefault == SpecAsciiDefaultInit /\ [][AsciiDefaultNext]_vars

\* runs of the posting command on one pull request
SpecPostInit ==
  /\ comments \in {<<>>, <<[id |-> 1, body |-> <<"lgtm">>]>>}
  /\ next_id = Len(comments) + 1
  /\ ppc = "idle"
  /\ env = NoEnv
  /\ final_body = <<>>
  /\ existing_id = NoId
  /\ requests = <<>>
  /\ posted = <<>>
  /\ runs = 0
  /\ vobj = EmptyDict
  /\ vpc = "idle"
  /\ xywh = NoRect
  /\ vexc = "none"
  /\ vtype = NoType
  /\ tree = {}
  /\ listing = NoListing
  /\ wpc = "idle"
  /\ report_dirs = <<>>
  /\ ri = 0
  /\ page_dirs = <<>>
  /\ pj = 0
  /\ pobj = EmptyDict
  /\ page_entry = NoEntry
  /\ pages_out = <<>>
  /\ all_pages = <<>>
  /\ wexc = "none"
  /\ pages = <<>>
  /\ changed = <<>>
  /\ cpc = "idle"
  /\ page_by_path = NoGroups
  /\ visuals_by_path = NoGroups
  /\ ci = 0
  /\ per_page = NoGroups
  /\ visuals_for_page = <<>>
  /\ cols = 0
  /\ rows = 0
  /\ apc = "idle"
  /\ max_right = 0
  /\ max_bottom = 0
  /\ grid = <<>>
  /\ vi = 0
  /\ boxes = <<>>
  /\ touched = {}
  /\ out = <<>>
  /\ aexc = "none"

PostNext ==
  \/ StartRun
  \/ ConfigDie
  \/ Compose
  \/ ListFails
  \/ ListComments
  \/ UpdateComment
  \/ CreateComment
  \/ OtherComment

SpecPost == SpecPostInit /\ [][PostNext]_vars

(***************************************************************************)
(* Properties of the Visual Descriptor Extractor                           *)
(***************************************************************************)
IsNonEmptyStr(v) == v.t = "str" /\ Len(v.s) > 0

DeclaredVisualType(doc) ==
  IF doc.f.visual.t = "obj" THEN doc.f.visual.f.visualType ELSE Absent

DeclaredGroupName(doc) ==
  IF doc.f.visualGroup.t = "obj" THEN doc.f.visualGroup.f.displayName ELSE Absent

TypeResolutionRan == vpc \in {"typed", "raised_type"}

\* C1: after the indexing pass has run type resolution on a visual document,
\* a document with a non-empty visual.visualType has that string as its type,
\* otherwise a document with a non-empty visualGroup.displayName has that
\* string as its type, and only a document with neither ends in the
\* schema-violation error (ValueError naming the source file).
C1_TypeResolution ==
  TypeResolutionRan =>
    IF IsNonEmptyStr(DeclaredVisualType(vobj))
    THEN vpc = "typed" /\ vtype = DeclaredVisualType(vobj).s
    ELSE IF IsNonEmptyStr(DeclaredGroupName(vobj))
    THEN vpc = "typed" /\ vtype = DeclaredGroupName(vobj).s
    ELSE vpc = "raised_type" /\ vexc = "ValueError"

\* C9: rectangle resolution raises no error, whatever the position entry is.
C9_RectNeverFails == vpc # "raised_xywh"

RectResolutionRan == vpc # "read"

PositionMissing(doc) == doc.f.position.t \in {"absent", "null"}

PositionPartial(doc) ==
  /\ doc.f.position.t = "obj"
  /\ \A k \in DOMAIN doc.f.position.f : doc.f.position.f[k].t \in {"absent", "num"}

FieldOrDefault(doc, key, default) ==
  IF doc.f.position.f[key].t = "num" THEN doc.f.position.f[key].n ELSE default

\* C10: a document with no position block (missing or null) gets the
\* rectangle (0, 0, 1, 1); in a position block holding only some of the four
\* fields, each absent field takes its default (x=0, y=0, width=1, height=1)
\* and each present numeric field keeps its value.
C10_RectDefaults ==
  RectResolutionRan =>
    /\ PositionMissing(vobj) =>
         /\ vpc # "raised_xywh"
         /\ xywh = [x |-> 0, y |-> 0, width |-> 1, height |-> 1]
    /\ PositionPartial(vobj) =>
         /\ vpc # "raised_xywh"
         /\ xywh.x      = FieldOrDefault(vobj, "x", 0)
         /\ xywh.y      = FieldOrDefault(vobj, "y", 0)
         /\ xywh.width  = FieldOrDefault(vobj, "width", 1)
         /\ xywh.height = FieldOrDefault(vobj, "height", 1)

\* a block with x and height present, y and width absent, has been resolved
C10_Witness ==
  /\ vpc = "xywh"
  /\ vobj.f.position.t = "obj"
  /\ vobj.f.position.f.x = Num(2)
  /\ vobj.f.position.f.height = Num(2)
  /\ vobj.f.position.f.y.t = "absent"
  /\ vobj.f.position.f.width.t = "absent"
  /\ xywh = [x |-> 2, y |-> 0, width |-> 1, height |-> 2]

(***************************************************************************)
(* Properties of the Report Tree Walker                                    *)
(***************************************************************************)
\* the directories an entry of the mapping came from, read off its path
ReportDirOf(e)     == SubSeq(e.path, 1, Len(e.path) - 4)
ReportDirNameOf(e) == e.path[Len(e.path) - 4]
PageDirNameOf(e)   == e.path[Len(e.path) - 1]
VisualDirNameOf(v) == v.path[Len(v.path) - 1]

PagesInDirOrder ==
  \A i, j \in DOMAIN all_pages :
    (i < j /\ ReportDirOf(all_pages[i]) = ReportDirOf(all_pages[j]))
      => StrLess(PageDirNameOf(all_pages[i]), PageDirNameOf(all_pages[j]))

VisualsInDirOrder ==
  \A k \in DOMAIN all_pages :
    \A i, j \in DOMAIN all_pages[k].visuals :
      i < j => StrLess(VisualDirNameOf(all_pages[k].visuals[i]),
                       VisualDirNameOf(all_pages[k].visuals[j]))

DeclaredOf(doc, key) == DictGet(doc, key, Null).val

\* C8: the page id is the document's declared name when present and
\* non-empty, otherwise the page directory name; the page name is the declared
\* display name when present and non-empty, otherwise it equals the page id.
C8_PageIdentity ==
  wpc = "entry" =>
    /\ page_entry.id =
         IF IsNonEmptyStr(DeclaredOf(pobj, "name"))
         THEN DeclaredOf(pobj, "name").s
         ELSE page_dirs[pj]
    /\ page_entry.name =
         IF IsNonEmptyStr(DeclaredOf(pobj, "displayName"))
         THEN DeclaredOf(pobj, "displayName").s
         ELSE page_entry.id

(***************************************************************************)
(* Properties of the Change Correlator                                     *)
(***************************************************************************)
Groups == {per_page[key] : key \in DOMAIN per_page}

ChangedPaths == {changed[i] : i \in DOMAIN changed}

\* the page that owns the visual with this definition path in the index
OwnersOf(path) ==
  {k \in DOMAIN pages : \E m \in DOMAIN pages[k].visuals : pages[k].visuals[m].path = path}

VisualPathsOfIndex == {p \in PathsOf(pages) : OwnersOf(p) # {}}

EntriesOf(g) == {g.visuals[i] : i \in DOMAIN g.visuals}

\* C2: once every changed path is correlated, each changed path equal to a
\* visual's definition path has put (path, visual) into the group whose page
\* owns that visual and into no other group; a group has page_changed set only
\* if its own page's definition path is among the changed paths; and every
\* group stems from a changed path that matches a page or a visual.
C2_GroupsFollowOwnership ==
  cpc = "grouped" =>
    /\ \A p \in ChangedPaths \cap VisualPathsOfIndex :
         /\ \E g \in Groups :
              /\ g.page \in OwnersOf(p)
              /\ \E e \in EntriesOf(g) : e[1] = p
         /\ \A g \in Groups :
              (\E e \in EntriesOf(g) : e[1] = p) => g.page \in OwnersOf(p)
    /\ \A g \in Groups : g.page_changed => pages[g.page].path \in ChangedPaths
    /\ \A g \in Groups :
         \/ pages[g.page].path \in ChangedPaths
         \/ \E e \in EntriesOf(g) : e[1] \in ChangedPaths \cap VisualPathsOfIndex

(***************************************************************************)
(* Properties of the ASCII Layout Renderer                                 *)
(***************************************************************************)
GridCells == (0..(rows - 1)) \X (0..(cols - 1))

\* C4: for every input, ascii_layout uses no grid index outside rows
\* 0..rows-1 and columns 0..cols-1 and raises nothing; for a non-empty input
\* the returned lines all have length cols + 2 and number at most rows + 2,
\* and for an empty input the empty sequence is returned.
C4_GridSafety ==
  /\ aexc = "none"
  /\ apc # "raised"
  /\ touched \subseteq GridCells
  /\ apc = "returned" =>
       IF visuals_for_page = <<>>
       THEN out = <<>>
       ELSE /\ Len(out) <= rows + 2
            /\ \A i \in DOMAIN out : Len(out[i]) = cols + 2

\* ten visuals were drawn, the last of them of negative width, zero height
\* and starting left of the extent
C4_Witness ==
  /\ apc = "returned"
  /\ Len(visuals_for_page) = MaxVisuals
  /\ visuals_for_page[MaxVisuals][2].x < 0
  /\ visuals_for_page[MaxVisuals][2].width < 0
  /\ visuals_for_page[MaxVisuals][2].height = 0
  /\ touched # {}
  /\ Len(out) = rows + 2

\* C5: every label character written for a visual lies inside the grid and
\* inside that visual's own drawn rectangle.
C5_LabelInsideBox ==
  \A i \in DOMAIN boxes :
    \A cell \in boxes[i].label :
      /\ cell \in GridCells
      /\ boxes[i].top <= cell[1] /\ cell[1] <= boxes[i].bottom
      /\ boxes[i].left <= cell[2] /\ cell[2] <= boxes[i].right

\* C6: for one visual at x = 0, y = 0 with positive width and height on the
\* default 60x16 grid, the outline fills grid row 0, grid row rows-1, grid
\* column 0 and grid column cols-1, and the label "1" is written at one cell
\* strictly inside the outline.
C6_FullExtentOutline ==
  apc = "returned" =>
    /\ \A c \in 0..(cols - 1) :
         grid[0][c] \in {"+", "-"} /\ grid[rows - 1][c] \in {"+", "-"}
    /\ \A r \in 0..(rows - 1) :
         grid[r][0] \in {"+", "|"} /\ grid[r][cols - 1] \in {"+", "|"}
    /\ \E r \in 1..(rows - 2) : \E c \in 1..(cols - 2) :
         /\ grid[r][c] = "1"
         /\ boxes[1].label = {<<r, c>>}

C6_Witness ==
  /\ apc = "returned"
  /\ cols = 60
  /\ rows = 16
  /\ visuals_for_page[1][2].width = 3
  /\ visuals_for_page[1][2].height = 5
  /\ grid[0][59] = "+"
  /\ grid[15][0] = "+"
  /\ grid[8][29] = "1"


\* C12: on a grid with cols >= 2 and rows >= 2, the rectangle drawn for every
\* visual, after rounding, clamping and minimum-size forcing, has
\* right > left and bottom > top.
C12_MinimumSpan ==
  (cols >= 2 /\ rows >= 2) =>
    \A i \in DOMAIN boxes :
      /\ boxes[i].right > boxes[i].left
      /\ boxes[i].bottom > boxes[i].top
(***************************************************************************)
(* Properties of the posting command                                       *)
(***************************************************************************)
Marked == {i \in DOMAIN comments : Contains(comments[i].body, DEFAULT_MARKER)}

\* C3: starting from a pull request with no marked comment, after any number
\* n >= 1 of successful runs exactly one comment contains the marker; the
\* first successful run created it and every later one updated that same
\* comment.
C3_PostingIdempotent ==
  /\ Cardinality(Marked) = IF posted = <<>> THEN 0 ELSE 1
  /\ \A k \in DOMAIN posted :
       /\ posted[k].did = IF k = 1 THEN "create" ELSE "update"
       /\ posted[k].id = posted[1].id
       /\ \E i \in Marked : comments[i].id = posted[k].id

\* three successful runs, with somebody else's comment before and after the
\* marked one
C3_Witness ==
  /\ ppc = "posted"
  /\ Len(posted) = 3
  /\ Len(comments) = 3
  /\ Marked = {2}


\* the configuration the run was started with lacks something it requires
Misconfigured ==
  \/ env.token \in {"unset", "empty"}
  \/ env.repo \in {"unset", "empty"}
  \/ env.pr_number \in {"unset", "empty"}
  \/ ~env.file.exists
  \/ \A i \in DOMAIN env.file.text : env.file.text[i] = " "

Writes == {i \in DOMAIN requests : requests[i].method \in {"POST", "PATCH"}}

\* C11: in every run whose token, repository or pull request number is unset
\* or empty, or whose comment file is missing or empty after trimming, the
\* run can only go to the fatal error state and its log of requests stays
\* empty; and in every run a create or update request is the second request
\* and follows a list request answered with 200, so none follows a failed
\* list request, after which the run is in the fatal error state.
C11_ConfigBeforeNetwork ==
  /\ Misconfigured =>
       /\ requests = <<>>
       /\ ppc \in {"idle", "started", "died"}
       /\ ppc = "started" => ENABLED ConfigDie /\ ~ENABLED Compose
  /\ \A i \in Writes : i = 2 /\ requests[1] = Request("GET", 200)
  /\ (requests # <<>> /\ requests[1].status # 200) =>
       /\ requests[1].method = "GET"
       /\ Len(requests) = 1
       /\ ppc = "died"

\* a run that found a comment file holding only blanks has died without a
\* request, on a pull request where an earlier run had posted its comment
C11_Witness ==
  /\ ppc = "died"
  /\ env.token = "set" /\ env.repo = "set" /\ env.pr_number = "set"
  /\ env.file = [exists |-> TRUE, text |-> <<" ">>]
  /\ requests = <<>>
  /\ posted # <<>>
=============================================================================
